---- MODULE Spec2Model ----
(***************************************************************************)
(* The browser client of src/app/static/app.js as a state machine: the     *)
(* in-memory session state and its local-storage mirror, the DOM classes   *)
(* the handlers toggle, and the asynchronous handlers (login, logout, init, *)
(* nav clicks, personnel form) suspended at their awaited network calls.   *)
(* Every step is one macrotask of the event loop: a user event, or the     *)
(* arrival of a network response together with the continuation it wakes.  *)
(*                                                                         *)
(* Followed: state.token/role/username and their local-storage keys, the   *)
(* three cached lists, the classes of #auth-section, #app, the six view    *)
(* panels and the four creation forms, #user-info and #personnel-table.    *)
(* Not followed: the option lists of populateSelects and the contents the  *)
(* renderers of dashboard, schedule, plan, vacations and analytics write   *)
(* (no handler reads them back), hence neither the refresh buttons nor the *)
(* schedule, plan and vacation forms, which only reload those contents.    *)
(*                                                                         *)
(* Three specifications share the actions.  Spec and SpecViews run them in *)
(* two environments (many sessions and few views, or one session and all   *)
(* views and lists), SpecFull in both at once; SpecFetch follows a single  *)
(* apiFetch call through its response and its toast.                       *)
(***************************************************************************)
EXTENDS Integers, Sequences, FiniteSets, Bags, TLC

VARIABLES
  state,          \* app.js:1-8, the in-memory state object
  localStorage,   \* the keys token, role, username of window.localStorage
  authHidden,     \* #auth-section carries the class hidden
  appHidden,      \* #app carries the class hidden
  userInfo,       \* #user-info text: <<username, role>> or <<>>
  viewHidden,     \* for each .view panel: it carries the class hidden
  formHidden,     \* for each creation form: it carries the class hidden
  personnelTable, \* rows rendered into #personnel-table
  tasks,          \* bag of handler instances suspended at an await
  ev,             \* the macrotask that produced the current state
  world,          \* the environment of the run: "sessions", "views" or "full"
  call            \* one apiFetch call followed in detail (SpecFetch)

vars == <<state, localStorage, authHidden, appHidden, userInfo, viewHidden,
          formHidden, personnelTable, tasks, ev, world, call>>

-----------------------------------------------------------------------------
(* Bounds of the model *)

\* handler instances suspended at an await at the same time
MaxTasks == 2

\* length of state.personnel up to which a personnel POST may still succeed
MaxLen == 2

-----------------------------------------------------------------------------
(* Values *)

\* JavaScript null: an absent local-storage key, a cleared state field
Null == "<null>"

\* JavaScript undefined: a field a JSON payload does not carry
Undefined == "<undefined>"

Keys == {"token", "role", "username"}
Tokens == {"t1", "t2"}
Roles == {"admin", "planner", "viewer"}
Usernames == {"u1"}
Views == {"dashboard", "personnel", "schedule", "plan", "vacations", "analytics"}
Forms == {"personnel", "schedule", "plan", "vacation"}
BaseKeys == {"personnel", "dutyTypes", "equipment"}
Outcomes == {"ok", "httpError", "networkError"}

\* what the backend may answer to the three base-data GETs and the POST
DutyTypeLists == {<<"d1">>}
EquipmentLists == {<<"e1">>}
CreatedPersons == {"B"}

BasePath(k) ==
  CASE k = "personnel" -> "GET /api/personnel"
    [] k = "dutyTypes" -> "GET /api/duty-types"
    [] k = "equipment" -> "GET /api/equipment"

Sessions == [token : Tokens, role : Roles, username : Usernames]

\* The environment of a run, fixed at Init: the sessions the backend hands
\* out, the lists GET /api/personnel returns, the nav buttons the user clicks.
SessionWorld ==
  [sessions |-> Sessions, lists |-> {<<"A">>}, clicks |-> {"dashboard"}]
ViewWorld ==
  [sessions |-> {[token |-> "t1", role |-> "admin", username |-> "u1"]},
   lists |-> {<<>>, <<"A">>}, clicks |-> Views]
FullWorld ==
  [sessions |-> Sessions, lists |-> {<<>>, <<"A">>}, clicks |-> Views]
World ==
  CASE world = "views" -> ViewWorld
    [] world = "sessions" -> SessionWorld
    [] OTHER -> FullWorld

BaseData(k) ==
  CASE k = "personnel" -> World.lists
    [] k = "dutyTypes" -> DutyTypeLists
    [] k = "equipment" -> EquipmentLists

\* JavaScript truthiness of the values above
Truthy(v) == v \notin {Null, Undefined, ""}

\* String(v): what localStorage.setItem stores and new Error(v) carries
ToStr(v) ==
  CASE v = Null -> "null"
    [] v = Undefined -> "undefined"
    [] OTHER -> v

\* a || b
Or(a, b) == IF Truthy(a) THEN a ELSE b

-----------------------------------------------------------------------------
(* The page as served: classes the markup gives before any script runs.    *)

InitialViewHidden == [v \in Views |-> v # "dashboard"]
InitialFormHidden == [f \in Forms |-> FALSE]
NavButtons == Views

\* What the user can reach: the login form lies in #auth-section, the logout
\* button, the nav and the creation forms lie in #app, and an element under
\* the class hidden takes no clicks.
LoginFormShown == ~authHidden
AppShown == ~appHidden
PersonnelFormShown == ~appHidden /\ ~formHidden["personnel"]

-----------------------------------------------------------------------------
(* Helpers of app.js *)

\* localStorage.setItem(key, value)
setItem(ls, k, v) == [ls EXCEPT ![k] = ToStr(v)]

\* localStorage.removeItem(key)
removeItem(ls, k) == [ls EXCEPT ![k] = Null]

\* app.js:1-8
NewState(ls) ==
  [token |-> ls["token"], role |-> ls["role"], username |-> ls["username"],
   personnel |-> <<>>, dutyTypes |-> <<>>, equipment |-> <<>>]

\* app.js:52-62, the classes and text it leaves
setAuthenticated(st) ==
  IF Truthy(st.token)
  THEN [auth |-> TRUE, app |-> FALSE, info |-> <<st.username, st.role>>]
  ELSE [auth |-> FALSE, app |-> TRUE, info |-> <<>>]

\* a showView that unhides the target without hiding the other panels
showViewNoHide(name, vh) ==
  IF name \in DOMAIN vh THEN [vh EXCEPT ![name] = FALSE] ELSE vh

\* app.js:64-72
showView(name, vh) ==
  LET hidden == [v \in DOMAIN vh |-> TRUE]
  IN IF name \in DOMAIN vh THEN [hidden EXCEPT ![name] = FALSE] ELSE hidden

\* a toggleFormsByRole that takes admin alone for privileged
toggleFormsAdminOnly(st, fh) ==
  LET privileged == st.role = "admin"
  IN [f \in DOMAIN fh |-> ~privileged]

\* app.js:344-354
toggleFormsByRole(st, fh) ==
  LET privileged == st.role = "admin" \/ st.role = "planner"
  IN [f \in DOMAIN fh |-> ~privileged]

\* app.js:133-156
renderPersonnel(personnel) == personnel

-----------------------------------------------------------------------------
(* Handler instances.  A task is a handler suspended at an await:          *)
(*   kind  the handler, pc  the await it is suspended at,                   *)
(*   auth  the token the pending request(s) carry in Authorization (kept   *)
(*         for loadBaseData and loadDashboard, whose failure init answers  *)
(*         by dropping the token),                                         *)
(*   got   for Promise.all of loadBaseData: the fetches already fulfilled.  *)

Pending == [done |-> FALSE, val |-> <<>>]
Fulfilled(v) == [done |-> TRUE, val |-> v]
NoneGot == [k \in BaseKeys |-> Pending]

Task(kind, pc, auth) == [kind |-> kind, pc |-> pc, auth |-> auth, got |-> NoneGot]

Add(ts, t) == ts (+) SetToBag({t})
Remove(ts, t) == ts (-) SetToBag({t})
Replace(ts, t, u) == Add(Remove(ts, t), u)
Running == BagToSet(tasks)
Room == BagCardinality(tasks) < MaxTasks

\* app.js:20-22, the Authorization header apiFetch attaches
authHeader(st) == IF Truthy(st.token) THEN st.token ELSE Null

Event(name, kind, arg, auth, sent) ==
  [name |-> name, kind |-> kind, arg |-> arg, auth |-> auth, sent |-> sent]

\* app.js:74-79, the three requests loadBaseData issues at once
loadBaseDataSent == <<BasePath("personnel"), BasePath("dutyTypes"), BasePath("equipment")>>

\* app.js:80-82, the assignments after Promise.all fulfilled with got
loadBaseDataAssign(st, got) ==
  [st EXCEPT !.personnel = got["personnel"].val,
             !.dutyTypes = got["dutyTypes"].val,
             !.equipment = got["equipment"].val]

\* app.js:158-159
loadDashboardSent == <<"GET /api/dashboard">>

NoCall == [pc |-> "none"]

-----------------------------------------------------------------------------
(* init, app.js:500-518, up to its first suspension *)

init(st, fh) ==
  IF Truthy(st.token)
  THEN [dom |-> setAuthenticated(st), forms |-> toggleFormsByRole(st, fh),
        tasks |-> SetToBag({Task("init", "base", authHeader(st))}),
        sent |-> loadBaseDataSent]
  ELSE [dom |-> setAuthenticated(st), forms |-> fh,
        tasks |-> EmptyBag, sent |-> <<>>]

\* the catch of init, app.js:509-514
initCatch(st) == [st EXCEPT !.token = Null]
\* a catch that clears the token in memory and leaves the stored one
initCatchStorageKept(ls) == ls

initCatchStorage(ls) == removeItem(ls, "token")

PageLoad(ls, name) ==
  LET st == NewState(ls)
      r == init(st, InitialFormHidden)
  IN /\ state' = st
     /\ localStorage' = ls
     /\ authHidden' = r.dom.auth
     /\ appHidden' = r.dom.app
     /\ userInfo' = r.dom.info
     /\ viewHidden' = InitialViewHidden
     /\ formHidden' = r.forms
     /\ personnelTable' = <<>>
     /\ tasks' = r.tasks
     /\ ev' = Event(name, "init", "", authHeader(st), r.sent)
     /\ UNCHANGED <<world, call>>

Loaded(w, ls) ==
  LET st == NewState(ls)
      r == init(st, InitialFormHidden)
  IN /\ state = st
     /\ localStorage = ls
     /\ authHidden = r.dom.auth
     /\ appHidden = r.dom.app
     /\ userInfo = r.dom.info
     /\ viewHidden = InitialViewHidden
     /\ formHidden = r.forms
     /\ personnelTable = <<>>
     /\ tasks = r.tasks
     /\ ev = Event("load", "init", "", authHeader(st), r.sent)
     /\ world = w
     /\ call = NoCall

\* the first load of the page in a browser that stores nothing yet
NoStorage == [k \in Keys |-> Null]
Init == Loaded("sessions", NoStorage)
InitViews == Loaded("views", NoStorage)
InitFull == Loaded("full", NoStorage)

\* the user reloads the page: every suspended handler dies with the old page
Reload == PageLoad(localStorage, "reload")

-----------------------------------------------------------------------------
(* login form, app.js:358-380 *)

LoginSubmit ==
  /\ LoginFormShown
  /\ Room
  /\ tasks' = Add(tasks, Task("login", "login", authHeader(state)))
  /\ ev' = Event("loginSubmit", "login", "", authHeader(state), <<"POST /api/auth/login">>)
  /\ UNCHANGED <<state, localStorage, authHidden, appHidden, userInfo, viewHidden,
                 formHidden, personnelTable, world, call>>

\* app.js:366-368
loginState(st, session) ==
  [st EXCEPT !.token = session.token, !.role = session.role,
             !.username = session.username]

\* a login that stores the token and the username and forgets the role
loginStorageNoRole(ls, st) ==
  setItem(setItem(ls, "token", st.token), "username", st.username)

\* app.js:369-371
loginStorage(ls, st) ==
  setItem(setItem(setItem(ls, "token", st.token), "role", st.role),
          "username", st.username)

LoginOk(t, session) ==
  LET st == loginState(state, session)
      dom == setAuthenticated(st)
  IN /\ t \in Running /\ t.kind = "login" /\ t.pc = "login"
     /\ state' = st
     /\ localStorage' = loginStorage(localStorage, st)
     /\ authHidden' = dom.auth
     /\ appHidden' = dom.app
     /\ userInfo' = dom.info
     /\ formHidden' = toggleFormsByRole(st, formHidden)
     /\ tasks' = Replace(tasks, t, Task("login", "base", authHeader(st)))
     /\ ev' = Event("loginOk", "login", "ok", t.auth, loadBaseDataSent)
     /\ UNCHANGED <<viewHidden, personnelTable, world, call>>

\* POST /api/auth/login rejected (HTTP error or network error alike):
\* app.js:377-379
LoginFail(t) ==
  /\ t \in Running /\ t.kind = "login" /\ t.pc = "login"
  /\ tasks' = Remove(tasks, t)
  /\ ev' = Event("loginFail", "login", "", t.auth, <<>>)
  /\ UNCHANGED <<state, localStorage, authHidden, appHidden, userInfo, viewHidden,
                 formHidden, personnelTable, world, call>>

-----------------------------------------------------------------------------
(* loadBaseData, app.js:74-85, awaited by the login handler (app.js:374)   *)
(* and by init (app.js:504).  Promise.all fulfils with the third fulfilled *)
(* fetch and rejects with the first rejected one; the fetches still        *)
(* pending after a rejection can only show a toast, so the task ends there. *)

AllGot(got) == \A k \in BaseKeys : got[k].done

\* one of the three fetches is fulfilled, the other two are not all in yet
BasePartial(t, k, data) ==
  LET got == [t.got EXCEPT ![k] = Fulfilled(data)]
  IN /\ t \in Running /\ t.pc = "base" /\ ~t.got[k].done
     /\ data \in BaseData(k)
     /\ ~AllGot(got)
     /\ tasks' = Replace(tasks, t, [t EXCEPT !.got = got])
     /\ ev' = Event("basePartial", t.kind, "", Null, <<>>)
     /\ UNCHANGED <<state, localStorage, authHidden, appHidden, userInfo,
                    viewHidden, formHidden, personnelTable, world, call>>

\* the continuation of a fulfilled loadBaseData in the login handler,
\* app.js:375: loadDashboard is called, showView waits for it
loginAfterBase(vh) == vh

\* the continuation of a fulfilled loadBaseData in init, app.js:505-508
initAfterBase(vh) == showView("dashboard", vh)

\* the last of the three fetches is fulfilled: app.js:80-84, then the caller
BaseOk(t, k, data) ==
  LET got == [t.got EXCEPT ![k] = Fulfilled(data)]
      st == loadBaseDataAssign(state, got)
  IN /\ t \in Running /\ t.pc = "base" /\ ~t.got[k].done
     /\ data \in BaseData(k)
     /\ AllGot(got)
     /\ state' = st
     /\ personnelTable' = renderPersonnel(got["personnel"].val)
     /\ viewHidden' = IF t.kind = "init" THEN initAfterBase(viewHidden)
                                         ELSE loginAfterBase(viewHidden)
     /\ tasks' = Replace(tasks, t, Task(t.kind, "dash", authHeader(st)))
     /\ ev' = Event("baseOk", t.kind, "", t.auth, loadDashboardSent)
     /\ UNCHANGED <<localStorage, authHidden, appHidden, userInfo, formHidden, world, call>>

\* the catch of the login handler, app.js:377-379: console.error only
loginCatch(st) == st
loginCatchStorage(ls) == ls

\* what the rejection of loadBaseData or loadDashboard leaves of the session
Caught(kind, st) == IF kind = "init" THEN initCatch(st) ELSE loginCatch(st)
CaughtStorage(kind, ls) ==
  IF kind = "init" THEN initCatchStorage(ls) ELSE loginCatchStorage(ls)

Rejected(t, name) ==
  LET st == Caught(t.kind, state)
      dom == setAuthenticated(st)
  IN /\ state' = st
     /\ localStorage' = CaughtStorage(t.kind, localStorage)
     /\ authHidden' = IF t.kind = "init" THEN dom.auth ELSE authHidden
     /\ appHidden' = IF t.kind = "init" THEN dom.app ELSE appHidden
     /\ userInfo' = IF t.kind = "init" THEN dom.info ELSE userInfo
     /\ tasks' = Remove(tasks, t)
     /\ ev' = Event(name, t.kind, "", t.auth, <<>>)
     /\ UNCHANGED <<viewHidden, formHidden, personnelTable, world, call>>

\* the first of the three fetches to fail rejects Promise.all
BaseFail(t, k) ==
  /\ t \in Running /\ t.pc = "base" /\ ~t.got[k].done
  /\ Rejected(t, "baseFail")

-----------------------------------------------------------------------------
(* loadDashboard, app.js:158-161, awaited by the login handler             *)
(* (app.js:375-376) and returned into init's promise chain (app.js:507).   *)

\* app.js:376 runs in the login handler only
afterDashboard(kind, vh) == IF kind = "login" THEN showView("dashboard", vh) ELSE vh

DashOk(t) ==
  /\ t \in Running /\ t.pc = "dash" /\ t.kind \in {"login", "init"}
  /\ viewHidden' = afterDashboard(t.kind, viewHidden)
  /\ tasks' = Remove(tasks, t)
  /\ ev' = Event("dashOk", t.kind, "ok", t.auth, <<>>)
  /\ UNCHANGED <<state, localStorage, authHidden, appHidden, userInfo,
                 formHidden, personnelTable, world, call>>

DashFail(t) ==
  /\ t \in Running /\ t.pc = "dash" /\ t.kind \in {"login", "init"}
  /\ Rejected(t, "dashFail")

-----------------------------------------------------------------------------
(* logout button, app.js:382-396 *)

LogoutClick ==
  /\ AppShown
  /\ Room
  /\ tasks' = Add(tasks, Task("logout", "logout", Null))
  /\ ev' = Event("logoutClick", "logout", "", Null, <<"POST /api/auth/logout">>)
  /\ UNCHANGED <<state, localStorage, authHidden, appHidden, userInfo, viewHidden,
                 formHidden, personnelTable, world, call>>

\* app.js:388-390
logoutState(st) == [st EXCEPT !.token = Null, !.role = Null, !.username = Null]

\* a logout that removes the stored token alone
logoutStorageTokenOnly(ls) == removeItem(ls, "token")

\* app.js:391-393
logoutStorage(ls) == removeItem(removeItem(removeItem(ls, "token"), "role"), "username")

\* the response of POST /api/auth/logout, fulfilled or rejected: app.js:385-395
LogoutDone(t, outcome) ==
  LET st == logoutState(state)
      dom == setAuthenticated(st)
  IN /\ t \in Running /\ t.kind = "logout"
     /\ outcome \in Outcomes
     /\ state' = st
     /\ localStorage' = logoutStorage(localStorage)
     /\ authHidden' = dom.auth
     /\ appHidden' = dom.app
     /\ userInfo' = dom.info
     /\ viewHidden' = showView("dashboard", viewHidden)
     /\ tasks' = Remove(tasks, t)
     /\ ev' = Event("logoutDone", "logout", outcome, Null, <<>>)
     /\ UNCHANGED <<formHidden, personnelTable, world, call>>

-----------------------------------------------------------------------------
(* nav buttons, app.js:398-409 *)

\* a click handler that reloads the personnel list from the backend
navSentPersonnelFetch(view) ==
  CASE view = "dashboard" -> loadDashboardSent
    [] view = "personnel" -> <<"GET /api/personnel">>
    [] view = "schedule" -> <<"GET /api/schedule">>
    [] view = "plan" -> <<"GET /api/plan">>
    [] view = "vacations" -> <<"GET /api/vacations">>
    [] view = "analytics" -> <<"GET /api/analytics/summary">>
    [] OTHER -> <<>>

\* the requests the click handler issues for a view: loadDashboard
\* (app.js:159), none for personnel (app.js:403), loadSchedule (app.js:210),
\* loadPlan (app.js:245), loadVacations (app.js:279), loadAnalytics (app.js:317)
navSent(view) ==
  CASE view = "dashboard" -> loadDashboardSent
    [] view = "personnel" -> <<>>
    [] view = "schedule" -> <<"GET /api/schedule">>
    [] view = "plan" -> <<"GET /api/plan">>
    [] view = "vacations" -> <<"GET /api/vacations">>
    [] view = "analytics" -> <<"GET /api/analytics/summary">>
    [] OTHER -> <<>>

\* The click handler up to its await.  What the awaited response does is
\* written into the panel's own container only (renderDashboard,
\* renderSchedule, ...), which no other handler reads: the requests are
\* recorded in ev.sent and their continuations are not followed.
NavClick(view) ==
  /\ AppShown
  /\ view \in NavButtons
  /\ view \in World.clicks
  /\ viewHidden' = showView(view, viewHidden)
  /\ personnelTable' = IF view = "personnel" THEN renderPersonnel(state.personnel)
                                             ELSE personnelTable
  /\ ev' = Event("navClick", "nav", view, Null, navSent(view))
  /\ UNCHANGED <<state, localStorage, authHidden, appHidden, userInfo, formHidden,
                 tasks, world, call>>

-----
(* personnel form, app.js:426-444 *)

PersonnelSubmit ==
  /\ PersonnelFormShown
  /\ Room
  /\ tasks' = Add(tasks, Task("personnel", "post", Null))
  /\ ev' = Event("personnelSubmit", "personnel", "", Null, <<"POST /api/personnel">>)
  /\ UNCHANGED <<state, localStorage, authHidden, appHidden, userInfo, viewHidden,
                 formHidden, personnelTable, world, call>>

\* a handler that puts the created record first
pushCreatedFront(st, created) == [st EXCEPT !.personnel = <<created>> \o @]

\* app.js:436
pushCreated(st, created) == [st EXCEPT !.personnel = Append(@, created)]

PersonnelOk(t, created) ==
  LET st == pushCreated(state, created)
  IN /\ t \in Running /\ t.kind = "personnel"
     /\ created \in CreatedPersons
     /\ Len(state.personnel) < MaxLen
     /\ state' = st
     /\ personnelTable' = renderPersonnel(st.personnel)
     /\ tasks' = Remove(tasks, t)
     /\ ev' = Event("personnelOk", "personnel", created, Null, <<>>)
     /\ UNCHANGED <<localStorage, authHidden, appHidden, userInfo, viewHidden,
                    formHidden, world, call>>

\* POST /api/personnel rejected: app.js:440-442
PersonnelFail(t) ==
  /\ t \in Running /\ t.kind = "personnel"
  /\ tasks' = Remove(tasks, t)
  /\ ev' = Event("personnelFail", "personnel", "", Null, <<>>)
  /\ UNCHANGED <<state, localStorage, authHidden, appHidden, userInfo, viewHidden,
                 formHidden, personnelTable, world, call>>

-----------------------------------------------------------------------------
(* apiFetch, app.js:17-36, and showToast, app.js:38-50, for one call        *)
(* followed from its fetch() to the removal of its toast.  call holds:     *)
(*   pc       none, awaiting, returned or thrown                            *)
(*   request  method and path, headers  what app.js:18-22 attached,         *)
(*   sent     how many times fetch() was invoked for the call,              *)
(*   resp     the response (or network failure) that settled it,            *)
(*   error    the message of the error rethrown, shown  the texts given to  *)
(*   showToast, toast  the phase of the toast element.                      *)

ApiRequests == {"POST /api/auth/login", "GET /api/personnel", "POST /api/personnel"}

\* a JSON string field of an error payload, or its absence
DetailValues == {Undefined, "", "X"}
MessageValues == {Undefined, "", "M"}
StatusTexts == {"", "Bad Request"}

\* the text of app.js:33 for an error without a message (transliterated)
NetworkErrorText == "Pomylka merezhi"

\* the TypeError fetch() rejects with, the SyntaxError of response.json()
FetchErrors == {"Failed to fetch"}
ParseErrors == {"Unexpected token"}

\* what can settle fetch(): kind "response" (status line and body arrived),
\* "badJson" (response.json() threw), "network" (fetch() rejected)
Responses ==
  [kind : {"response"}, ok : BOOLEAN, isJson : BOOLEAN, detail : DetailValues,
   message : MessageValues, statusText : StatusTexts, error : {""}]
  \cup [kind : {"badJson"}, ok : BOOLEAN, isJson : {TRUE}, detail : {Undefined},
        message : {Undefined}, statusText : StatusTexts, error : ParseErrors]
  \cup [kind : {"network"}, ok : {FALSE}, isJson : {FALSE}, detail : {Undefined},
        message : {Undefined}, statusText : {""}, error : FetchErrors]

\* nothing has settled fetch() yet
NoResponse ==
  [kind |-> "none", ok |-> FALSE, isJson |-> FALSE, detail |-> Undefined,
   message |-> Undefined, statusText |-> "", error |-> ""]

\* app.js:18-22
apiFetchHeaders(st) ==
  [contentType |-> "application/json",
   authorization |-> IF Truthy(st.token) THEN st.token ELSE Undefined]

\* app.js:27: the payload's fields; a text body has neither
payloadField(r, f) == IF r.isJson THEN r[f] ELSE Undefined

\* an apiFetch that prefers the message field to the detail field
httpErrorMessageFirst(r) ==
  ToStr(Or(Or(payloadField(r, "message"), payloadField(r, "detail")), r.statusText))

\* app.js:29, the message of the Error thrown for a non-2xx response
httpErrorMessage(r) ==
  ToStr(Or(Or(payloadField(r, "detail"), payloadField(r, "message")), r.statusText))

\* the error the try block of app.js:23-31 ends with, "" when it returns
thrownMessage(r) ==
  CASE r.kind = "network" -> r.error
    [] r.kind = "badJson" -> r.error
    [] r.kind = "response" /\ ~r.ok -> httpErrorMessage(r)
    [] OTHER -> ""

Throws(r) == r.kind # "response" \/ ~r.ok

\* app.js:33, the text handed to showToast
toastText(msg) == Or(msg, NetworkErrorText)

\* app.js:17-24: the headers are built and fetch() is invoked once
ApiFetch(req) ==
  /\ call.pc # "awaiting"
  /\ req \in ApiRequests
  /\ call' = [pc |-> "awaiting", request |-> req, headers |-> apiFetchHeaders(state),
              sent |-> 1, resp |-> NoResponse,
              error |-> "", shown |-> <<>>, toast |-> "none"]
  /\ UNCHANGED <<state, localStorage, authHidden, appHidden, userInfo, viewHidden,
                 formHidden, personnelTable, tasks, ev, world>>

\* app.js:24-35: fetch() settles; the payload is returned, or the error is
\* shown by showToast (app.js:39-42 append the element) and rethrown
ApiFetchSettle(r) ==
  /\ call.pc = "awaiting"
  /\ r \in Responses
  /\ call' = IF Throws(r)
             THEN [call EXCEPT !.pc = "thrown", !.resp = r,
                               !.error = thrownMessage(r),
                               !.shown = Append(@, toastText(thrownMessage(r))),
                               !.toast = "appended"]
             ELSE [call EXCEPT !.pc = "returned", !.resp = r]
  /\ UNCHANGED <<state, localStorage, authHidden, appHidden, userInfo, viewHidden,
                 formHidden, personnelTable, tasks, ev, world>>

\* app.js:43-49, the three timers of a toast
toastTimer(phase) ==
  CASE phase = "appended" -> "visible"
    [] phase = "visible" -> "fading"
    [] phase = "fading" -> "removed"
    [] OTHER -> phase

ToastTimer ==
  /\ call.pc = "thrown"
  /\ call.toast \in {"appended", "visible", "fading"}
  /\ call' = [call EXCEPT !.toast = toastTimer(@)]
  /\ UNCHANGED <<state, localStorage, authHidden, appHidden, userInfo, viewHidden,
                 formHidden, personnelTable, tasks, ev, world>>

\* the page loaded with nothing stored, or with a session stored earlier
StoredSessions ==
  {NoStorage} \cup {loginStorage(NoStorage, loginState(NewState(NoStorage), s)) : s \in Sessions}

InitFetch == \E ls \in StoredSessions : Loaded("sessions", ls)

NextFetch ==
  \/ \E req \in ApiRequests : ApiFetch(req)
  \/ \E r \in Responses : ApiFetchSettle(r)
  \/ ToastTimer

SpecFetch == InitFetch /\ [][NextFetch]_vars

-----------------------------------------------------------------------------

Next ==
  \/ Reload
  \/ LoginSubmit
  \/ \E t \in Running, s \in World.sessions : LoginOk(t, s)
  \/ \E t \in Running : LoginFail(t)
  \/ \E t \in Running, k \in BaseKeys : \E d \in BaseData(k) :
        BasePartial(t, k, d)
  \/ \E t \in Running, k \in BaseKeys : \E d \in BaseData(k) :
        BaseOk(t, k, d)
  \/ \E t \in Running, k \in BaseKeys : BaseFail(t, k)
  \/ \E t \in Running : DashOk(t)
  \/ \E t \in Running : DashFail(t)
  \/ LogoutClick
  \/ \E t \in Running, o \in Outcomes : LogoutDone(t, o)
  \/ \E v \in Views : NavClick(v)
  \/ PersonnelSubmit
  \/ \E t \in Running, c \in CreatedPersons : PersonnelOk(t, c)
  \/ \E t \in Running : PersonnelFail(t)

Spec == Init /\ [][Next]_vars
SpecViews == InitViews /\ [][Next]_vars
SpecFull == InitFull /\ [][Next]_vars

-----------------------------------------------------------------------------
(* Claims *)

SessionFields(st) == [k \in Keys |-> st[k]]
Cleared == [k \in Keys |-> Null]
AnonymousView == ~authHidden /\ appHidden
AuthenticatedView == authHidden /\ ~appHidden
Exited == SessionFields(state) = Cleared /\ localStorage = Cleared /\ AnonymousView

\* C1: whenever a base-data fetch issued by loadBaseData fails while a
\* session is held, from the login handler or from init, the session is
\* exited: token, role and username are cleared in memory and in local
\* storage and the anonymous view is shown.
C1_BaseFailureExitsSession ==
  [][\A t \in Running, k \in BaseKeys :
       BaseFail(t, k) /\ Truthy(state.token) => Exited']_vars

\* C2: a successful login writes the three session fields of the response
\* to local storage, and a page reload while they are stored shows the
\* authenticated view with the login section hidden and sends no login call.
C2_LoginSurvivesReload ==
  [][/\ \A t \in Running, s \in World.sessions :
          LoginOk(t, s) =>
            localStorage' = [token |-> s.token, role |-> s.role, username |-> s.username]
     /\ Reload /\ Truthy(localStorage["token"]) =>
          /\ AuthenticatedView'
          /\ SessionFields(state') = localStorage
          /\ \A i \in DOMAIN ev'.sent : ev'.sent[i] # "POST /api/auth/login"]_vars

C2_Witness ==
  /\ ev.name = "reload" /\ AuthenticatedView
  /\ state.token = "t2" /\ state.role = "planner"

\* C3: when the logout handler ends, whether POST /api/auth/logout was
\* answered, refused or never got through, token, role and username are null
\* in memory, their keys are gone from local storage, and the anonymous view
\* is shown.
C3_LogoutAlwaysProceeds ==
  ev.name = "logoutDone" =>
    /\ SessionFields(state) = Cleared
    /\ localStorage = Cleared
    /\ AnonymousView /\ userInfo = <<>>

C3_Witness == ev.name = "logoutDone" /\ ev.arg = "networkError" /\ Exited

\* C4: whenever the application view is shown, each of the four creation
\* forms is visible exactly when the session role is admin or planner.
C4_FormsFollowRole ==
  ~appHidden =>
    \A f \in Forms : ~formHidden[f] <=> state.role \in {"admin", "planner"}

C4_Witness ==
  /\ ~appHidden /\ ev.name = "loginOk" /\ state.role = "viewer"
  /\ \A f \in Forms : formHidden[f]

\* C5: exactly one of the six view panels is without the class hidden.
C5_OneViewVisible == Cardinality({v \in Views : ~viewHidden[v]}) = 1

C5_Witness == ev.name = "navClick" /\ ev.arg = "plan" /\ ~viewHidden["plan"]

\* C6: between handler steps, state.token, state.role and state.username
\* equal the values under the local-storage keys of the same names (null
\* for an absent key).
C6_SessionMirrored == \A k \in Keys : state[k] = localStorage[k]

C6_Witness ==
  /\ ev.name = "baseFail" /\ ev.kind = "init"
  /\ state.token = Null /\ state.role = "admin" /\ localStorage["role"] = "admin"

\* C7: a click on the dashboard nav button issues exactly one request, GET
\* /api/dashboard; a click on the personnel nav button issues none and
\* renders the table from state.personnel.
C7_NavRequests ==
  ev.name = "navClick" =>
    /\ ev.arg = "dashboard" => ev.sent = <<"GET /api/dashboard">>
    /\ ev.arg = "personnel" => ev.sent = <<>> /\ personnelTable = state.personnel

C7_Witness ==
  /\ ev.name = "navClick" /\ ev.arg = "personnel" /\ Truthy(state.token)
  /\ personnelTable = <<"A", "B">>

Copies(st) == <<st.personnel, st.dutyTypes, st.equipment>>

\* C8: while a page lives, the copies of personnel, duty types and
\* equipment change only when loadBaseData got all three answers, which then
\* replace all three, or when a personnel POST succeeded, whose record is
\* appended to the personnel copy with no GET issued; a failed fetch or POST
\* changes none of them.
C8_CopiesChange ==
  [][Copies(state') # Copies(state) =>
       \/ Reload
       \/ \E t \in Running, k \in BaseKeys : \E d \in BaseData(k) :
            /\ BaseOk(t, k, d)
            /\ \A j \in BaseKeys \ {k} : t.got[j].done
            /\ state'.personnel = (IF k = "personnel" THEN d ELSE t.got["personnel"].val)
            /\ state'.dutyTypes = (IF k = "dutyTypes" THEN d ELSE t.got["dutyTypes"].val)
            /\ state'.equipment = (IF k = "equipment" THEN d ELSE t.got["equipment"].val)
       \/ \E t \in Running, c \in CreatedPersons :
            /\ PersonnelOk(t, c)
            /\ state'.personnel = state.personnel \o <<c>>
            /\ state'.dutyTypes = state.dutyTypes
            /\ state'.equipment = state.equipment
            /\ ev'.sent = <<>>]_vars

C8_Witness ==
  /\ ev.name = "personnelOk" /\ state.personnel = <<"A", "B">>
  /\ state.dutyTypes = <<"d1">>

\* the call was settled by a non-2xx response with a JSON body
Failed ==
  /\ call.pc \in {"returned", "thrown"}
  /\ call.resp.kind = "response" /\ ~call.resp.ok /\ call.resp.isJson

Present(v) == v # Undefined /\ v # ""

C10_NoStaleFailureEndsSession ==
  [][Truthy(state.token) /\ ~Truthy(state'.token) =>
       \/ \E t \in Running, o \in Outcomes : LogoutDone(t, o)
       \/ \E t \in Running, k \in BaseKeys : BaseFail(t, k) /\ t.auth = state.token
       \/ \E t \in Running : DashFail(t) /\ t.auth = state.token]_vars

====
